---- MODULE Spec2Model ----
(***************************************************************************)
(* A model of the puzzle solvers of advent-of-code-2024 (Rust): the guard  *)
(* walk of day06, the warehouse robot of day15, the maze search of day16,  *)
(* the disk compaction of day09, the report check of day02, Matrix::new    *)
(* and the input parsers.  Every solver gets its own specification over    *)
(* the shared variables; the variables of the other solvers rest at Idle.  *)
(***************************************************************************)
EXTENDS Integers, Sequences, FiniteSets, TLC

VARIABLES
    \* ---- day06 ----
    pc6,                  \* position in the caller / part_1 / part_2
    mode6,                \* which calls the caller makes: "p1", "p2", "p1p2"
    matrix,               \* Matrix<bool>: rows of booleans, TRUE = obstacle
    guard,                \* Guard {position, direction}
    matrix0,              \* the caller's freshly parsed matrix
    guard0,               \* the caller's freshly parsed guard
    visited,              \* visits: HashSet<[usize; 2]>
    caller6,              \* who called visits: "part_1" or "part_2"
    obstacles,            \* part_2: counter
    position_original,    \* part_2
    direction_original,   \* part_2
    todo,                 \* part_2: cells of `visited` the for loop has not taken yet
    cur,                  \* part_2: [row, col] of the current iteration
    visited_with_obstacle,\* part_2: HashSet<(Direction, [usize; 2])>
    answer1,              \* value returned by part_1 (once pc6 is past "p1_done")
    answer2,              \* value returned by part_2 (once pc6 = "p2_done")
    \* ---- day15 ----
    pc15,                 \* "run", "done" (take_step returned None) or "panic"
    robot,                \* Warehouse.robot: Coordinate {r, c}
    wh,                   \* Warehouse.matrix: rows of Narrow or Wide cells
    directions,           \* Warehouse.directions
    i15,                  \* Warehouse.i
    robot0,               \* the warehouse as it was before the first step
    wh0,
    \* ---- day16 ----
    pc16,                 \* "solve", "done" (the part returned) or "panic"
    mode16,               \* "p1": part_1(maze), "p2": part_2(maze)
    maze,                 \* Maze: matrix (TRUE = no wall), start, end, direction
    min_heap,             \* solve: the TraversalStates in the BinaryHeap
    visited16,            \* solve: visited, (coord, direction) -> best score
    states16,             \* solve: states, the states popped on the end cell
    best_score,           \* solve: best_score, None or <<score>>
    answer16,             \* value returned by part_1 or part_2
    \* ---- day09 ----
    pc9,                  \* "start", "loop", "after", "done" or "panic"
    input9,               \* the disk map: the sizes its digits give
    memory,               \* Memory: files and gaps, sequences of Blocks
    files9,               \* part_1: files, the blocks moved so far
    i_file,               \* part_1: i_file (file is memory.files[i_file])
    i_gap,                \* part_1: i_gap (gap is memory.gaps[i_gap])
    n_gaps,               \* part_1: n_gaps
    total_length,         \* part_1: total_length
    answer9,              \* value returned by part_1
    left_by,              \* how the while loop of part_1 ended: "condition" or "break"
    \* ---- parse_input of day01, day03, day13 ----
    pcP,                  \* "call" or "done"
    dayP,                 \* the module whose parse_input is called
    textP,                \* the text given to parse_input
    outcomeP,             \* [kind |-> "panic" | "err" | "value", value |-> ...]
    \* ---- day02 ----
    pc2,                  \* "for" (between two reports), "vec" (in the body) or "done"
    vec2,                 \* part_2: vec, the report of the current iteration (else <<>>)
    n_vec,                \* how many reports the for loop has taken
    score2,               \* part_2: score
    \* ---- Matrix::new ----
    pcM,                  \* "call" or "done"
    dataM,                \* the rows given to Matrix::new
    outcomeM              \* [kind |-> "panic" | "value", value |-> the rows held]

Null == "null"      \* no value yet, where the value is a name
None == <<>>        \* Option::None, where Some holds a tuple
Idle == "idle"      \* a variable of a solver that is not running

vars6 == <<pc6, mode6, matrix, guard, matrix0, guard0, visited, caller6, obstacles,
           position_original, direction_original, todo, cur, visited_with_obstacle,
           answer1, answer2>>

vars15 == <<pc15, robot, wh, directions, i15, robot0, wh0>>

vars16 == <<pc16, mode16, maze, min_heap, visited16, states16, best_score, answer16>>

vars9 == <<pc9, input9, memory, files9, i_file, i_gap, n_gaps, total_length, answer9,
           left_by>>

varsP == <<pcP, dayP, textP, outcomeP>>

vars2 == <<pc2, vec2, n_vec, score2>>

varsM == <<pcM, dataM, outcomeM>>

vars == <<vars6, vars15, vars16, vars9, varsP, vars2, varsM>>

\* The variables of the solvers a specification does not run
IdleExcept(day) ==
    /\ IF day = "day06" THEN TRUE
       ELSE /\ pc6 = Idle /\ mode6 = Idle /\ matrix = Idle /\ guard = Idle
            /\ matrix0 = Idle /\ guard0 = Idle /\ visited = Idle /\ caller6 = Idle
            /\ obstacles = Idle /\ position_original = Idle
            /\ direction_original = Idle /\ todo = Idle /\ cur = Idle
            /\ visited_with_obstacle = Idle /\ answer1 = Idle /\ answer2 = Idle
    /\ IF day = "day15" THEN TRUE
       ELSE /\ pc15 = Idle /\ robot = Idle /\ wh = Idle /\ directions = Idle
            /\ i15 = Idle /\ robot0 = Idle /\ wh0 = Idle
    /\ IF day = "day16" THEN TRUE
       ELSE /\ pc16 = Idle /\ mode16 = Idle /\ maze = Idle /\ min_heap = Idle
            /\ visited16 = Idle /\ states16 = Idle /\ best_score = Idle
            /\ answer16 = Idle
    /\ IF day = "day09" THEN TRUE
       ELSE /\ pc9 = Idle /\ input9 = Idle /\ memory = Idle /\ files9 = Idle
            /\ i_file = Idle /\ i_gap = Idle /\ n_gaps = Idle
            /\ total_length = Idle /\ answer9 = Idle /\ left_by = Idle
    /\ IF day = "parse" THEN TRUE
       ELSE /\ pcP = Idle /\ dayP = Idle /\ textP = Idle /\ outcomeP = Idle
    /\ IF day = "day02" THEN TRUE
       ELSE /\ pc2 = Idle /\ vec2 = Idle /\ n_vec = Idle /\ score2 = Idle
    /\ IF day = "matrix" THEN TRUE
       ELSE /\ pcM = Idle /\ dataM = Idle /\ outcomeM = Idle

SameExcept(day) ==
    /\ IF day = "day06" THEN TRUE ELSE UNCHANGED vars6
    /\ IF day = "day15" THEN TRUE ELSE UNCHANGED vars15
    /\ IF day = "day16" THEN TRUE ELSE UNCHANGED vars16
    /\ IF day = "day09" THEN TRUE ELSE UNCHANGED vars9
    /\ IF day = "parse" THEN TRUE ELSE UNCHANGED varsP
    /\ IF day = "day02" THEN TRUE ELSE UNCHANGED vars2
    /\ IF day = "matrix" THEN TRUE ELSE UNCHANGED varsM


\* ------------------------------------------------------------------------
\* Bounds of the model
\* ------------------------------------------------------------------------
\* day06: grids of at most MaxSide rows and columns and at most MaxCells cells,
\* with at most MaxObstacles obstacles for part_1 alone and MaxObstacles2 for part_2
MaxSide == 4
MaxCells == 12
MaxObstacles == 4
MaxObstacles2 == 3
\* day15, narrow: warehouses of at most MaxSide15 rows and columns and MaxCells15
\* cells; MaxMoves15 directions
MaxSide15 == 4
MaxCells15 == 6
MaxMoves15 == 2
\* day15, wide: warehouses of at most MaxRowsW rows, MaxNarrowColsW columns
\* before widening and MaxCellsW cells after it, with at most MaxBoxesW boxes
\* and MaxWallsW walls; MaxMovesW directions
MaxRowsW == 4
MaxNarrowColsW == 2
MaxCellsW == 16
MaxBoxesW == 2
MaxWallsW == 1
MaxMovesW == 1
\* day16: mazes of at most MaxSide16 rows and columns and MaxCells16 cells
MaxSide16 == 3
MaxCells16 == 9
\* day09: disk maps of at most MaxDigits9 digits, each at most MaxSize9
MaxDigits9 == 6
MaxSize9 == 3
\* parse_input: texts of at most MaxText characters (day01) or tokens (day03, day13)
MaxText == 6

\* ========================================================================
\* day06
\* ========================================================================

\* Mutant: the last arm of the match maps West to itself
clockwise_WestStays(d) ==
    CASE d = "North" -> "East"
      [] d = "East" -> "South"
      [] d = "South" -> "West"
      [] d = "West" -> "West"

\* Mutant: the guard turns left
clockwise_Counter(d) ==
    CASE d = "North" -> "West"
      [] d = "West" -> "South"
      [] d = "South" -> "East"
      [] d = "East" -> "North"

\* Direction::clockwise
clockwise(d) ==
    CASE d = "North" -> "East"
      [] d = "East" -> "South"
      [] d = "South" -> "West"
      [] d = "West" -> "North"

\* Matrix::shape: [n_rows, n_cols]
shape(m) == <<Len(m), Len(m[1])>>

\* matrix[row][col] with the code's 0-based indices
At(m, p) == m[p[1] + 1][p[2] + 1]

\* matrix[row][col] = value
SetAt(m, p, v) == [m EXCEPT ![p[1] + 1][p[2] + 1] = v]

\* Guard::peek: the cell ahead, or None when it is outside the bounds.
\* checked_sub gives None below 0; checked_add cannot overflow at these sizes.
peek(g, bounds) ==
    LET r == g.position[1]
        c == g.position[2]
        dest == CASE g.direction = "North" -> <<r - 1, c>>
                  [] g.direction = "East" -> <<r, c + 1>>
                  [] g.direction = "South" -> <<r + 1, c>>
                  [] g.direction = "West" -> <<r, c - 1>>
    IN IF dest[1] >= 0 /\ dest[1] < bounds[1] /\ dest[2] >= 0 /\ dest[2] < bounds[2]
       THEN dest ELSE None

\* Guard::rotate
rotate(g) == [g EXCEPT !.direction = clockwise(g.direction)]

\* ---- what parse_input can return ----
Shapes == {s \in (1..MaxSide) \X (1..MaxSide) : s[1] * s[2] <= MaxCells}

CellsOf(s) == (0..(s[1] - 1)) \X (0..(s[2] - 1))

ObstacleSets(s, maxObs) == {o \in SUBSET CellsOf(s) : Cardinality(o) <= maxObs}

\* parse_input: '#' -> true, '.' and '^' -> false
MatrixOf(s, obs) == [r \in 1..s[1] |-> [c \in 1..s[2] |-> <<r - 1, c - 1>> \in obs]]

\* parse_input: the guard faces North on the cell of '^' (a free cell), or stays
\* at [0, 0] when the text holds no '^'.
GuardStarts(s, obs) == (CellsOf(s) \ obs) \cup {<<0, 0>>}

Init6(modes, maxObs) ==
    /\ mode6 \in modes
    /\ \E s \in Shapes : \E obs \in ObstacleSets(s, maxObs) :
       \E p \in GuardStarts(s, obs) :
        /\ matrix = MatrixOf(s, obs)
        /\ guard = [position |-> p, direction |-> "North"]
    /\ matrix0 = matrix
    /\ guard0 = guard
    /\ pc6 = "start"
    /\ visited = {}
    /\ caller6 = Null
    /\ obstacles = 0
    /\ position_original = None
    /\ direction_original = Null
    /\ todo = {}
    /\ cur = None
    /\ visited_with_obstacle = {}
    /\ answer1 = 0
    /\ answer2 = 0

\* ---- visits ----
\* part_1 calls visits: visited = HashSet::from([guard.position])
Part1Call ==
    /\ pc6 = "start"
    /\ mode6 \in {"p1", "p1p2"}
    /\ visited' = {guard.position}
    /\ caller6' = "part_1"
    /\ pc6' = "visits"
    /\ UNCHANGED <<mode6, matrix, guard, matrix0, guard0, obstacles, position_original,
                   direction_original, todo, cur, visited_with_obstacle, answer1, answer2>>
    /\ SameExcept("day06")

\* visits, loop body: the cell ahead is an obstacle
VisitsRotate ==
    /\ pc6 = "visits"
    /\ peek(guard, shape(matrix)) # None
    /\ At(matrix, peek(guard, shape(matrix))) = TRUE
    /\ guard' = rotate(guard)
    /\ UNCHANGED <<pc6, mode6, matrix, matrix0, guard0, visited, caller6, obstacles,
                   position_original, direction_original, todo, cur,
                   visited_with_obstacle, answer1, answer2>>
    /\ SameExcept("day06")

\* visits, loop body: the cell ahead is free
VisitsMove ==
    /\ pc6 = "visits"
    /\ peek(guard, shape(matrix)) # None
    /\ At(matrix, peek(guard, shape(matrix))) = FALSE
    /\ visited' = visited \cup {peek(guard, shape(matrix))}
    /\ guard' = [guard EXCEPT !.position = peek(guard, shape(matrix))]
    /\ UNCHANGED <<pc6, mode6, matrix, matrix0, guard0, caller6, obstacles,
                   position_original, direction_original, todo, cur,
                   visited_with_obstacle, answer1, answer2>>
    /\ SameExcept("day06")

\* visits returns to part_1, which returns visited.len()
Part1Return ==
    /\ pc6 = "visits"
    /\ caller6 = "part_1"
    /\ peek(guard, shape(matrix)) = None
    /\ answer1' = Cardinality(visited)
    /\ pc6' = "p1_done"
    /\ UNCHANGED <<mode6, matrix, guard, matrix0, guard0, visited, caller6, obstacles,
                   position_original, direction_original, todo, cur,
                   visited_with_obstacle, answer2>>
    /\ SameExcept("day06")

Next6P1 == Part1Call \/ VisitsRotate \/ VisitsMove \/ Part1Return

InitDay06P1 == Init6({"p1"}, MaxObstacles) /\ IdleExcept("day06")

SpecDay06P1 == InitDay06P1 /\ [][Next6P1]_vars

\* ---- part_2 ----
\* part_2 up to its call of visits (fresh, or after part_1 on the same values)
Part2Call ==
    /\ \/ pc6 = "start" /\ mode6 = "p2"
       \/ pc6 = "p1_done" /\ mode6 = "p1p2"
    /\ obstacles' = 0
    /\ position_original' = guard.position
    /\ direction_original' = guard.direction
    /\ visited' = {guard.position}
    /\ caller6' = "part_2"
    /\ pc6' = "visits"
    /\ UNCHANGED <<mode6, matrix, guard, matrix0, guard0, todo, cur,
                   visited_with_obstacle, answer1, answer2>>
    /\ SameExcept("day06")

\* visits returns to part_2: visited.remove(&position_original), then the for
\* loop starts over what is left
Part2AfterVisits ==
    /\ pc6 = "visits"
    /\ caller6 = "part_2"
    /\ peek(guard, shape(matrix)) = None
    /\ todo' = visited \ {position_original}
    /\ visited_with_obstacle' = {}
    /\ pc6' = "for"
    /\ UNCHANGED <<mode6, matrix, guard, matrix0, guard0, visited, caller6, obstacles,
                   position_original, direction_original, cur, answer1, answer2>>
    /\ SameExcept("day06")

\* for [row, col] in visited: the HashSet yields its cells in any order.
\* Place the obstacle, put the guard back, record its first state.
Part2ForNext ==
    /\ pc6 = "for"
    /\ \E cell \in todo :
        /\ todo' = todo \ {cell}
        /\ cur' = cell
        /\ matrix' = SetAt(matrix, cell, TRUE)
    /\ guard' = [position |-> position_original, direction |-> direction_original]
    /\ visited_with_obstacle' =
           visited_with_obstacle \cup {<<direction_original, position_original>>}
    /\ pc6' = "while"
    /\ UNCHANGED <<mode6, matrix0, guard0, visited, caller6, obstacles,
                   position_original, direction_original, answer1, answer2>>
    /\ SameExcept("day06")

\* while let Some(next_position): the cell ahead is an obstacle
Part2WhileRotate ==
    /\ pc6 = "while"
    /\ peek(guard, shape(matrix)) # None
    /\ At(matrix, peek(guard, shape(matrix))) = TRUE
    /\ guard' = rotate(guard)
    /\ UNCHANGED <<pc6, mode6, matrix, matrix0, guard0, visited, caller6, obstacles,
                   position_original, direction_original, todo, cur,
                   visited_with_obstacle, answer1, answer2>>
    /\ SameExcept("day06")

\* the guard moves onto a free cell in a state it has not been in
Part2WhileMoveVacant ==
    /\ pc6 = "while"
    /\ peek(guard, shape(matrix)) # None
    /\ At(matrix, peek(guard, shape(matrix))) = FALSE
    /\ <<guard.direction, peek(guard, shape(matrix))>> \notin visited_with_obstacle
    /\ guard' = [guard EXCEPT !.position = peek(guard, shape(matrix))]
    /\ visited_with_obstacle' =
           visited_with_obstacle \cup {<<guard.direction, peek(guard, shape(matrix))>>}
    /\ UNCHANGED <<pc6, mode6, matrix, matrix0, guard0, visited, caller6, obstacles,
                   position_original, direction_original, todo, cur, answer1, answer2>>
    /\ SameExcept("day06")

\* the guard moves onto a free cell in a state it has been in: count, break,
\* undo the obstacle, clear the set
Part2WhileMoveLoop ==
    /\ pc6 = "while"
    /\ peek(guard, shape(matrix)) # None
    /\ At(matrix, peek(guard, shape(matrix))) = FALSE
    /\ <<guard.direction, peek(guard, shape(matrix))>> \in visited_with_obstacle
    /\ guard' = [guard EXCEPT !.position = peek(guard, shape(matrix))]
    /\ obstacles' = obstacles + 1
    /\ matrix' = SetAt(matrix, cur, FALSE)
    /\ visited_with_obstacle' = {}
    /\ pc6' = "for"
    /\ UNCHANGED <<mode6, matrix0, guard0, visited, caller6,
                   position_original, direction_original, todo, cur, answer1, answer2>>
    /\ SameExcept("day06")

\* Mutant: the obstacle is not undone when the guard walks off the grid
Part2WhileExit_NoUndo ==
    /\ pc6 = "while"
    /\ peek(guard, shape(matrix)) = None
    /\ visited_with_obstacle' = {}
    /\ pc6' = "for"
    /\ UNCHANGED <<mode6, matrix, guard, matrix0, guard0, visited, caller6, obstacles,
                   position_original, direction_original, todo, cur, answer1, answer2>>
    /\ SameExcept("day06")

\* the cell ahead is outside: the while loop ends, undo the obstacle, clear the set
Part2WhileExit ==
    /\ pc6 = "while"
    /\ peek(guard, shape(matrix)) = None
    /\ matrix' = SetAt(matrix, cur, FALSE)
    /\ visited_with_obstacle' = {}
    /\ pc6' = "for"
    /\ UNCHANGED <<mode6, guard, matrix0, guard0, visited, caller6, obstacles,
                   position_original, direction_original, todo, cur, answer1, answer2>>
    /\ SameExcept("day06")

\* the for loop is over: part_2 returns obstacles
Part2Return ==
    /\ pc6 = "for"
    /\ todo = {}
    /\ answer2' = obstacles
    /\ pc6' = "p2_done"
    /\ UNCHANGED <<mode6, matrix, guard, matrix0, guard0, visited, caller6, obstacles,
                   position_original, direction_original, todo, cur,
                   visited_with_obstacle, answer1>>
    /\ SameExcept("day06")

Next6P2 ==
    \/ Part1Call \/ VisitsRotate \/ VisitsMove \/ Part1Return
    \/ Part2Call \/ Part2AfterVisits \/ Part2ForNext \/ Part2WhileRotate
    \/ Part2WhileMoveVacant \/ Part2WhileMoveLoop \/ Part2WhileExit \/ Part2Return

InitDay06P2 == Init6({"p2", "p1p2"}, MaxObstacles2) /\ IdleExcept("day06")

SpecDay06P2 == InitDay06P2 /\ [][Next6P2]_vars

\* The loops of visits and part_2 run on their own: a step that can be taken is taken.
FairSpecDay06P1 == SpecDay06P1 /\ WF_vars(Next6P1)

FairSpecDay06P2 == SpecDay06P2 /\ WF_vars(Next6P2)

\* ------------------------------------------------------------------------
\* day06: the walk as the claims describe it
\* ------------------------------------------------------------------------
Ahead(p, d) ==
    CASE d = "North" -> <<p[1] - 1, p[2]>>
      [] d = "East" -> <<p[1], p[2] + 1>>
      [] d = "South" -> <<p[1] + 1, p[2]>>
      [] d = "West" -> <<p[1], p[2] - 1>>

InGrid(m, p) == p[1] \in 0..(Len(m) - 1) /\ p[2] \in 0..(Len(m[1]) - 1)

TurnRight(d) == CHOOSE e \in {"North", "East", "South", "West"} :
    <<d, e>> \in {<<"North", "East">>, <<"East", "South">>, <<"South", "West">>,
                  <<"West", "North">>}

\* The cells the guard occupies when it steps forward onto free cells and turns
\* right before obstacles until the cell ahead is outside the grid, and whether
\* that has happened within `fuel` steps.
RECURSIVE WalkCells(_, _, _, _, _)
WalkCells(m, p, d, cells, fuel) ==
    IF ~InGrid(m, Ahead(p, d)) THEN [left |-> TRUE, cells |-> cells]
    ELSE IF fuel = 0 THEN [left |-> FALSE, cells |-> cells]
    ELSE IF At(m, Ahead(p, d)) THEN WalkCells(m, p, TurnRight(d), cells, fuel - 1)
    ELSE WalkCells(m, Ahead(p, d), d, cells \cup {Ahead(p, d)}, fuel - 1)

\* A walk that has not left after visiting every (cell, direction) never leaves.
Fuel(m) == 4 * Len(m) * Len(m[1])

Walk(m, start) == WalkCells(m, start, "North", {start}, Fuel(m))

Leaves(m, start) == Walk(m, start).left

\* The free cells other than the start on which one more obstacle traps the guard
LoopCells(m, start) ==
    {c \in (0..(Len(m) - 1)) \X (0..(Len(m[1]) - 1)) :
        /\ ~At(m, c)
        /\ c # start
        /\ ~Leaves(SetAt(m, c, TRUE), start)}

C1_WitnessFresh ==
    /\ pc6 = "p2_done"
    /\ mode6 = "p2"
    /\ answer2 > 0

\* ------------------------------------------------------------------------
\* C3: visits terminates for every grid and every start.  Original statement.
\* ------------------------------------------------------------------------
C3_VisitsTerminates == <>(pc6 = "p1_done")

\* C3 as amended: visits returns exactly when the walk from the start reaches,
\* within 4 * rows * cols steps, a cell whose cell ahead is outside the grid;
\* on every other grid it never returns.
C3_TerminatesIffWalkLeaves ==
    /\ Leaves(matrix0, guard0.position) => <>(pc6 = "p1_done")
    /\ ~Leaves(matrix0, guard0.position) => [](pc6 # "p1_done")

\* visits has returned after the guard turned and moved
C3_Witness ==
    /\ pc6 = "p1_done"
    /\ guard.direction # "North"
    /\ Cardinality(visited) >= 4

\* ------------------------------------------------------------------------
\* C4: part_1 returns the number of distinct cells of the walk, start included.
\* ------------------------------------------------------------------------
C4_Part1CountsWalk ==
    pc6 = "p1_done" =>
        /\ Leaves(matrix0, guard0.position)
        /\ answer1 = Cardinality(Walk(matrix0, guard0.position).cells)

\* part_1 has returned after a walk that turned and crossed its own path
C4_Witness ==
    /\ pc6 = "p1_done"
    /\ guard.direction \in {"South", "West"}
    /\ answer1 >= 5

\* ------------------------------------------------------------------------
\* C5: part_2 returns the number of cells on which one more obstacle traps the
\* guard, on every grid (here: on every grid the plain walk leaves).
\* ------------------------------------------------------------------------
C5_Part2ReturnsLoopCells ==
    mode6 = "p2" /\ Leaves(matrix0, guard0.position) =>
        <>(pc6 = "p2_done" /\ answer2 = Cardinality(LoopCells(matrix0, guard0.position)))

\* What does hold: whenever part_2 returns, it returns that number.
C5_Part2CountWhenReturned ==
    pc6 = "p2_done" /\ mode6 = "p2" =>
        answer2 = Cardinality(LoopCells(matrix0, guard0.position))

\* ========================================================================
\* day15, Warehouse<Narrow>
\* ========================================================================
Cardinals == {"North", "East", "South", "West"}

\* From<Cardinal> for Coordinate: COORDINATE_NORTH .. COORDINATE_WEST
CoordinateFrom(d) ==
    CASE d = "North" -> <<-1, 0>>
      [] d = "East" -> <<0, 1>>
      [] d = "South" -> <<1, 0>>
      [] d = "West" -> <<0, -1>>

\* Add for Coordinate
CoordAdd(a, b) == <<a[1] + b[1], a[2] + b[2]>>

\* Mul<T> for Coordinate
CoordMul(a, k) == <<a[1] * k, a[2] * k>>

\* Indexing self.matrix[r as usize][c as usize] panics outside the matrix
\* (a negative isize becomes a huge usize).
InMatrix(m, p) == p[1] >= 0 /\ p[1] < Len(m) /\ p[2] >= 0 /\ p[2] < Len(m[1])

\* Matrix::row(index): the cells of the row, left to right
row(m, index) == [k \in 1..shape(m)[2] |-> m[index + 1][k]]

\* Matrix::col(index): the cells of the column, top to bottom
col(m, index) == [k \in 1..shape(m)[1] |-> m[k][index + 1]]

\* Iterator::rev
rev(seq) == [k \in 1..Len(seq) |-> seq[Len(seq) + 1 - k]]

\* Iterator::skip(n)
skip(seq, n) == IF n >= Len(seq) THEN <<>> ELSE SubSeq(seq, n + 1, Len(seq))

\* move_package: the iterator along the axis, from the cell after the package
along(m, p, towards) ==
    CASE towards = "North" -> skip(rev(col(m, p[2])), shape(m)[1] - p[1])
      [] towards = "South" -> skip(col(m, p[2]), p[1] + 1)
      [] towards = "East" -> skip(row(m, p[1]), p[2] + 1)
      [] towards = "West" -> skip(rev(row(m, p[1])), shape(m)[2] - p[2])

\* Mutant: a wall does not end the search
RECURSIVE can_move_to_ThroughWalls(_, _)
can_move_to_ThroughWalls(iter, i) ==
    IF i >= Len(iter) THEN None
    ELSE IF iter[i + 1] = "Empty" THEN <<i>>
    ELSE can_move_to_ThroughWalls(iter, i + 1)

\* move_package: for (i, spot) in iter.enumerate(): Some(i) at the first Empty
\* spot, None when a Wall comes first or the iterator ends
RECURSIVE can_move_to(_, _)
can_move_to(iter, i) ==
    IF i >= Len(iter) THEN None
    ELSE IF iter[i + 1] = "Empty" THEN <<i>>
    ELSE IF iter[i + 1] = "Wall" THEN None
    ELSE can_move_to(iter, i + 1)

\* ---- what parse_input can return ----
Shapes15 == {s \in (1..MaxSide15) \X (1..MaxSide15) : s[1] * s[2] <= MaxCells15}

\* Seq-valued inputs of bounded length
SeqsUpTo(S, n) == UNION {[1..k -> S] : k \in 1..n}

\* parse_input: the matrix of parse_warehouse ('#', '.', 'O', '@'); the robot is
\* the first '@', whose cell becomes Empty, or Coordinate::default() = (0, 0)
\* when the text holds no '@'. Inputs hold at most one '@'. parse_directions
\* (fold_many1) yields at least one direction.
Init15N ==
    /\ \E s \in Shapes15 :
       \E f \in [CellsOf(s) -> {"Wall", "Empty", "Package"}] :
       \E p \in {q \in CellsOf(s) : f[q] = "Empty"} \cup {<<0, 0>>} :
        /\ wh = [r \in 1..s[1] |-> [c \in 1..s[2] |-> f[<<r - 1, c - 1>>]]]
        /\ robot = p
    /\ wh0 = wh
    /\ robot0 = robot
    /\ directions \in SeqsUpTo(Cardinals, MaxMoves15)
    /\ i15 = 0
    /\ pc15 = "run"

\* take_step: self.matrix[destination.r as usize][destination.c as usize] with
\* the destination outside the matrix: the index panics
TakeStepOutside ==
    /\ pc15 = "run"
    /\ i15 < Len(directions)
    /\ LET direction == directions[i15 + 1]
           destination == CoordAdd(robot, CoordinateFrom(direction))
       IN ~InMatrix(wh, destination)
    /\ pc15' = "panic"
    /\ UNCHANGED <<robot, wh, directions, i15, robot0, wh0>>
    /\ SameExcept("day15")

\* take_step: Narrow::Empty => self.robot = destination
TakeStepEmpty ==
    /\ pc15 = "run"
    /\ i15 < Len(directions)
    /\ LET direction == directions[i15 + 1]
           destination == CoordAdd(robot, CoordinateFrom(direction))
       IN
        /\ InMatrix(wh, destination)
        /\ At(wh, destination) = "Empty"
        /\ robot' = destination
    /\ i15' = i15 + 1
    /\ UNCHANGED <<pc15, wh, directions, robot0, wh0>>
    /\ SameExcept("day15")

\* take_step: Narrow::Wall => ()
TakeStepWall ==
    /\ pc15 = "run"
    /\ i15 < Len(directions)
    /\ LET direction == directions[i15 + 1]
           destination == CoordAdd(robot, CoordinateFrom(direction))
       IN
        /\ InMatrix(wh, destination)
        /\ At(wh, destination) = "Wall"
    /\ i15' = i15 + 1
    /\ UNCHANGED <<pc15, robot, wh, directions, robot0, wh0>>
    /\ SameExcept("day15")

\* take_step: Narrow::Package => self.move_package(&destination, &direction)
TakeStepPackage ==
    /\ pc15 = "run"
    /\ i15 < Len(directions)
    /\ LET direction == directions[i15 + 1]
           package == CoordAdd(robot, CoordinateFrom(direction))
           found == IF InMatrix(wh, package)
                    THEN can_move_to(along(wh, package, direction), 0) ELSE None
           destination ==
               CoordAdd(package, CoordMul(CoordinateFrom(direction), found[1] + 1))
       IN
        /\ InMatrix(wh, package)
        /\ At(wh, package) = "Package"
        /\ IF found # None
           THEN /\ robot' = CoordAdd(robot, CoordinateFrom(direction))
                /\ wh' = SetAt(SetAt(wh, package, "Empty"), destination, "Package")
           ELSE UNCHANGED <<robot, wh>>
    /\ i15' = i15 + 1
    /\ UNCHANGED <<pc15, directions, robot0, wh0>>
    /\ SameExcept("day15")

\* take_step: self.i >= self.directions.len(): None
TakeStepNone ==
    /\ pc15 = "run"
    /\ i15 >= Len(directions)
    /\ pc15' = "done"
    /\ UNCHANGED <<robot, wh, directions, i15, robot0, wh0>>
    /\ SameExcept("day15")

Next15N == TakeStepOutside \/ TakeStepEmpty \/ TakeStepWall \/ TakeStepPackage \/ TakeStepNone

InitDay15N == Init15N /\ IdleExcept("day15")

SpecDay15N == InitDay15N /\ [][Next15N]_vars

\* ========================================================================
\* day15, Warehouse<Wide>
\* ========================================================================
\* Coordinate::north, east, south, west on the fields r, c
north(p) == <<p[1] - 1, p[2]>>

east(p) == <<p[1], p[2] + 1>>

south(p) == <<p[1] + 1, p[2]>>

west(p) == <<p[1], p[2] - 1>>

\* match direction { Cardinal::North => package_part.north(), ... }
Towards(p, direction) ==
    CASE direction = "North" -> north(p)
      [] direction = "East" -> east(p)
      [] direction = "South" -> south(p)
      [] direction = "West" -> west(p)

WidePackages == {"PackageLeft", "PackageRight"}

\* The outcome of an index outside the matrix or of unreachable!()
Panicked == [panic |-> TRUE, stack |-> <<>>, visited |-> {}, moves |-> <<>>]

\* Mutant: a wall reached by a box half is treated like an empty cell
RECURSIVE for_package_part_WallIsEmpty(_, _, _, _, _, _, _)
for_package_part_WallIsEmpty(m, direction, package_l_r, k, stack, visit, moves) ==
    IF k > 2 THEN [panic |-> FALSE, stack |-> stack, visited |-> visit, moves |-> moves]
    ELSE LET package_part == package_l_r[k]
             destination == Towards(package_part, direction)
         IN
         IF ~InMatrix(m, package_part) THEN Panicked
         ELSE IF package_part \in visit
         THEN for_package_part_WallIsEmpty(m, direction, package_l_r, k + 1, stack, visit, moves)
         ELSE IF ~InMatrix(m, destination) THEN Panicked
         ELSE IF At(m, destination) \in {"Empty", "Wall"}
         THEN for_package_part_WallIsEmpty(m, direction, package_l_r, k + 1, stack,
                                visit \cup {package_part}, Append(moves, package_part))
         ELSE for_package_part_WallIsEmpty(m, direction, package_l_r, k + 1,
                                Append(stack, destination),
                                visit \cup {package_part}, Append(moves, package_part))

\* move_package: for package_part in package_l_r { ... }; visited, a matrix of
\* booleans in the code, is the set of the cells that hold true
RECURSIVE for_package_part(_, _, _, _, _, _, _)
for_package_part(m, direction, package_l_r, k, stack, visit, moves) ==
    IF k > 2 THEN [panic |-> FALSE, stack |-> stack, visited |-> visit, moves |-> moves]
    ELSE LET package_part == package_l_r[k]
             destination == Towards(package_part, direction)
         IN
         IF ~InMatrix(m, package_part) THEN Panicked
         ELSE IF package_part \in visit
         THEN for_package_part(m, direction, package_l_r, k + 1, stack, visit, moves)
         ELSE IF ~InMatrix(m, destination) THEN Panicked
         ELSE IF At(m, destination) = "Empty"
         THEN for_package_part(m, direction, package_l_r, k + 1, stack,
                                visit \cup {package_part}, Append(moves, package_part))
         ELSE IF At(m, destination) = "Wall"
         THEN [panic |-> FALSE, stack |-> <<>>,
               visited |-> visit \cup {package_part}, moves |-> <<>>]
         ELSE for_package_part(m, direction, package_l_r, k + 1,
                                Append(stack, destination),
                                visit \cup {package_part}, Append(moves, package_part))

\* move_package: while let Some(next_package) = stack.pop() { ... }
RECURSIVE while_stack_pop(_, _, _, _, _)
while_stack_pop(m, direction, stack, visit, moves) ==
    IF stack = <<>> THEN [panic |-> FALSE, stack |-> stack, visited |-> visit, moves |-> moves]
    ELSE LET next_package == stack[Len(stack)]
             popped == SubSeq(stack, 1, Len(stack) - 1)
         IN
         IF ~InMatrix(m, next_package) THEN Panicked
         ELSE IF next_package \in visit
         THEN while_stack_pop(m, direction, popped, visit, moves)
         ELSE IF At(m, next_package) \notin WidePackages THEN Panicked
         ELSE LET left == At(m, next_package) = "PackageLeft"
                  pushed == Append(popped, IF left THEN east(next_package)
                                                   ELSE west(next_package))
                  package_l_r == IF left THEN <<next_package, east(next_package)>>
                                         ELSE <<west(next_package), next_package>>
                  after == for_package_part(m, direction, package_l_r, 1, pushed, visit, moves)
              IN IF after.panic THEN Panicked
                 ELSE while_stack_pop(m, direction, after.stack, after.visited, after.moves)

\* Warehouse<Wide>::move_package
move_package(m, package, direction) == while_stack_pop(m, direction, <<package>>, {}, <<>>)

\* take_step: for package in packages.iter() { copy[package] = Wide::Empty }
RECURSIVE ClearPackages(_, _, _)
ClearPackages(copy, packages, k) ==
    IF k > Len(packages) THEN copy
    ELSE ClearPackages(SetAt(copy, packages[k], "Empty"), packages, k + 1)

\* take_step: for package in packages.iter() { copy[dest] = self.matrix[package] }
RECURSIVE PlacePackages(_, _, _, _, _)
PlacePackages(copy, m, packages, direction, k) ==
    IF k > Len(packages) THEN copy
    ELSE PlacePackages(SetAt(copy, Towards(packages[k], direction), At(m, packages[k])),
                       m, packages, direction, k + 1)

\* ---- the warehouses Warehouse<Wide> holds between two steps ----
ShapesW == {s \in (1..MaxRowsW) \X {2 * n : n \in 1..MaxNarrowColsW} : s[1] * s[2] <= MaxCellsW}

\* matrix_to_wide_matrix: a wall fills the two cells of a narrow column
WallSetsW(s) ==
    {w \in SUBSET {q \in CellsOf(s) : q[2] % 2 = 0} : Cardinality(w) <= MaxWallsW}

\* A box is PackageLeft with PackageRight east of it; pushes east and west
\* bring it to any column. Boxes overlap neither each other nor a wall.
BoxSetsW(s, walls) ==
    LET taken == walls \cup {east(q) : q \in walls}
        free == {q \in CellsOf(s) : east(q) \in CellsOf(s) /\ q \notin taken /\ east(q) \notin taken}
    IN {b \in SUBSET free : /\ Cardinality(b) <= MaxBoxesW
                            /\ \A q \in b : east(q) \notin b}

WideMatrixOf(s, walls, boxes) ==
    [r \in 1..s[1] |-> [c \in 1..s[2] |->
        LET q == <<r - 1, c - 1>> IN
        IF q \in walls \/ west(q) \in walls THEN "Wall"
        ELSE IF q \in boxes THEN "PackageLeft"
        ELSE IF west(q) \in boxes THEN "PackageRight"
        ELSE "Empty"]]

\* From<Warehouse<Narrow>> and the steps taken so far: the robot stands on an
\* Empty cell, and at least one direction is left to read
Init15W ==
    /\ \E s \in ShapesW :
       \E walls \in WallSetsW(s) :
       \E boxes \in BoxSetsW(s, walls) :
        /\ wh = WideMatrixOf(s, walls, boxes)
        /\ robot \in {q \in CellsOf(s) : At(WideMatrixOf(s, walls, boxes), q) = "Empty"}
    /\ wh0 = wh
    /\ robot0 = robot
    /\ directions \in SeqsUpTo(Cardinals, MaxMovesW)
    /\ i15 = 0
    /\ pc15 = "run"

\* take_step: the destination is outside the matrix: the index panics
WideStepOutside ==
    /\ pc15 = "run"
    /\ i15 < Len(directions)
    /\ ~InMatrix(wh, CoordAdd(robot, CoordinateFrom(directions[i15 + 1])))
    /\ pc15' = "panic"
    /\ UNCHANGED <<robot, wh, directions, i15, robot0, wh0>>
    /\ SameExcept("day15")

\* take_step: Wide::Empty => self.robot = destination
WideStepEmpty ==
    /\ pc15 = "run"
    /\ i15 < Len(directions)
    /\ LET destination == CoordAdd(robot, CoordinateFrom(directions[i15 + 1])) IN
        /\ InMatrix(wh, destination)
        /\ At(wh, destination) = "Empty"
        /\ robot' = destination
    /\ i15' = i15 + 1
    /\ UNCHANGED <<pc15, wh, directions, robot0, wh0>>
    /\ SameExcept("day15")

\* take_step: Wide::Wall => ()
WideStepWall ==
    /\ pc15 = "run"
    /\ i15 < Len(directions)
    /\ LET destination == CoordAdd(robot, CoordinateFrom(directions[i15 + 1])) IN
        /\ InMatrix(wh, destination)
        /\ At(wh, destination) = "Wall"
    /\ i15' = i15 + 1
    /\ UNCHANGED <<pc15, robot, wh, directions, robot0, wh0>>
    /\ SameExcept("day15")

\* take_step: Wide::PackageLeft | Wide::PackageRight, move_package returns
\* moves: the robot steps and the copy with the moved halves becomes the matrix
WideStepPackageMoved ==
    /\ pc15 = "run"
    /\ i15 < Len(directions)
    /\ LET direction == directions[i15 + 1]
           destination == CoordAdd(robot, CoordinateFrom(direction))
           found == move_package(wh, destination, direction)
       IN
        /\ InMatrix(wh, destination)
        /\ At(wh, destination) \in WidePackages
        /\ ~found.panic
        /\ found.moves # <<>>
        /\ robot' = destination
        /\ wh' = PlacePackages(ClearPackages(wh, found.moves, 1), wh, found.moves, direction, 1)
    /\ i15' = i15 + 1
    /\ UNCHANGED <<pc15, directions, robot0, wh0>>
    /\ SameExcept("day15")

\* take_step: move_package met a wall and returns no moves: packages.is_empty()
WideStepPackageBlocked ==
    /\ pc15 = "run"
    /\ i15 < Len(directions)
    /\ LET direction == directions[i15 + 1]
           destination == CoordAdd(robot, CoordinateFrom(direction))
           found == move_package(wh, destination, direction)
       IN
        /\ InMatrix(wh, destination)
        /\ At(wh, destination) \in WidePackages
        /\ ~found.panic
        /\ found.moves = <<>>
    /\ i15' = i15 + 1
    /\ UNCHANGED <<pc15, robot, wh, directions, robot0, wh0>>
    /\ SameExcept("day15")

\* take_step: move_package indexes a cell outside the matrix and panics
WideStepPackagePanic ==
    /\ pc15 = "run"
    /\ i15 < Len(directions)
    /\ LET direction == directions[i15 + 1]
           destination == CoordAdd(robot, CoordinateFrom(direction))
       IN
        /\ InMatrix(wh, destination)
        /\ At(wh, destination) \in WidePackages
        /\ move_package(wh, destination, direction).panic
    /\ pc15' = "panic"
    /\ UNCHANGED <<robot, wh, directions, i15, robot0, wh0>>
    /\ SameExcept("day15")

\* take_step: self.i >= self.directions.len(): return None
WideStepNone ==
    /\ pc15 = "run"
    /\ i15 >= Len(directions)
    /\ pc15' = "done"
    /\ UNCHANGED <<robot, wh, directions, i15, robot0, wh0>>
    /\ SameExcept("day15")

Next15W ==
    \/ WideStepOutside
    \/ WideStepEmpty
    \/ WideStepWall
    \/ WideStepPackageMoved
    \/ WideStepPackageBlocked
    \/ WideStepPackagePanic
    \/ WideStepNone

InitDay15W == Init15W /\ IdleExcept("day15")

SpecDay15W == InitDay15W /\ [][Next15W]_vars

\* ========================================================================
\* day16
\* ========================================================================
\* enum Score
Straight == 1

Turn == 1000

\* Coordinate::cardinal(direction): the neighbour in the direction
cardinal(coord, direction) ==
    CASE direction = "North" -> north(coord)
      [] direction = "East" -> east(coord)
      [] direction = "South" -> south(coord)
      [] direction = "West" -> west(coord)

\* derive(Ord) for Cardinal: the order of the variants
CardinalRank(d) ==
    CASE d = "North" -> 0
      [] d = "East" -> 1
      [] d = "South" -> 2
      [] d = "West" -> 3

\* derive(Ord) for Coordinate: by the first field, then by the second
CoordLess(a, b) == a[1] < b[1] \/ (a[1] = b[1] /\ a[2] < b[2])

\* Ord for TraversalState: a is Greater than b when its score is lower, then
\* when its coord is greater, then when its direction is greater
TraversalGreater(a, b) ==
    \/ a.score < b.score
    \/ a.score = b.score /\ CoordLess(b.coord, a.coord)
    \/ /\ a.score = b.score
       /\ a.coord = b.coord
       /\ CardinalRank(a.direction) > CardinalRank(b.direction)

\* BinaryHeap::pop: a greatest element; the heap decides among equal ones
HeapTop(h) == {a \in h : \A b \in h : ~TraversalGreater(b, a)}

\* solve: let directions = match &state.direction { ... }
directions_of(d) ==
    CASE d = "North" -> <<"West", "North", "East">>
      [] d = "East" -> <<"North", "East", "South">>
      [] d = "South" -> <<"East", "South", "West">>
      [] d = "West" -> <<"South", "West", "North">>

\* solve: the condition of the continue in the for loop; get_element gives None
\* outside the matrix
Closed(m, destination) ==
    \/ destination[1] < 0
    \/ destination[2] < 0
    \/ ~(IF InMatrix(m, destination) THEN At(m, destination) ELSE FALSE)

\* solve: the TraversalStates the for loop pushes for state
Pushed(m, state) ==
    {[direction |-> directions_of(state.direction)[k],
      score |-> IF directions_of(state.direction)[k] = state.direction
                THEN state.score + Straight
                ELSE state.score + Straight + Turn,
      coord |-> cardinal(state.coord, directions_of(state.direction)[k]),
      positions |-> Append(state.positions,
                           cardinal(state.coord, directions_of(state.direction)[k]))]
     : k \in {j \in 1..3 :
                ~Closed(m, cardinal(state.coord, directions_of(state.direction)[j]))}}

\* ---- what parse_input can return ----
Shapes16 == {s \in (1..MaxSide16) \X (1..MaxSide16) : s[1] * s[2] <= MaxCells16}

\* parse_input: every byte but '#' gives true; start and end are the cells of
\* 'S' and 'E'; direction is Cardinal::East
Init16 ==
    /\ \E s \in Shapes16 :
       \E open \in SUBSET CellsOf(s) :
       \E st \in open :
       \E en \in open \ {st} :
        maze = [matrix |-> [r \in 1..s[1] |-> [c \in 1..s[2] |-> <<r - 1, c - 1>> \in open]],
                start |-> st, end |-> en, direction |-> "East"]
    /\ mode16 \in {"p1", "p2"}
    /\ min_heap = {[score |-> 0, coord |-> maze.start, direction |-> maze.direction,
                    positions |-> <<maze.start>>]}
    /\ visited16 = <<>>
    /\ states16 = <<>>
    /\ best_score = None
    /\ answer16 = 0
    /\ pc16 = "solve"

\* solve: if state.coord == maze.end { best_score = ...; states.push(...) }
AtEndBest(state) == IF state.coord = maze.end THEN <<state.score>> ELSE best_score

AtEndStates(state) == IF state.coord = maze.end THEN Append(states16, state) ELSE states16

\* solve, one turn of the while loop: the popped state is above best_score
SolvePopAboveBest ==
    /\ pc16 = "solve"
    /\ \E state \in HeapTop(min_heap) :
        /\ best_score # None
        /\ state.score > best_score[1]
        /\ min_heap' = min_heap \ {state}
    /\ UNCHANGED <<pc16, mode16, maze, visited16, states16, best_score, answer16>>
    /\ SameExcept("day16")

\* solve, one turn of the while loop: visited holds a lower score: worse_path
SolvePopWorsePath ==
    /\ pc16 = "solve"
    /\ \E state \in HeapTop(min_heap) :
        /\ ~(best_score # None /\ state.score > best_score[1])
        /\ <<state.coord, state.direction>> \in DOMAIN visited16
        /\ visited16[<<state.coord, state.direction>>] < state.score
        /\ best_score' = AtEndBest(state)
        /\ states16' = AtEndStates(state)
        /\ min_heap' = min_heap \ {state}
    /\ UNCHANGED <<pc16, mode16, maze, visited16, answer16>>
    /\ SameExcept("day16")

\* solve, one turn of the while loop: visited takes the score and the for loop
\* pushes the states of the open neighbours
SolvePopExpand ==
    /\ pc16 = "solve"
    /\ \E state \in HeapTop(min_heap) :
        LET key == <<state.coord, state.direction>> IN
        /\ ~(best_score # None /\ state.score > best_score[1])
        /\ ~(key \in DOMAIN visited16 /\ visited16[key] < state.score)
        /\ best_score' = AtEndBest(state)
        /\ states16' = AtEndStates(state)
        /\ visited16' = [k \in DOMAIN visited16 \cup {key} |->
                            IF k = key THEN state.score ELSE visited16[k]]
        /\ min_heap' = (min_heap \ {state}) \cup Pushed(maze.matrix, state)
    /\ UNCHANGED <<pc16, mode16, maze, answer16>>
    /\ SameExcept("day16")

\* part_1: solve(maze).first().unwrap().score
Part1Return16 ==
    /\ pc16 = "solve"
    /\ mode16 = "p1"
    /\ min_heap = {}
    /\ states16 # <<>>
    /\ answer16' = states16[1].score
    /\ pc16' = "done"
    /\ UNCHANGED <<mode16, maze, min_heap, visited16, states16, best_score>>
    /\ SameExcept("day16")

\* part_1: solve returns no state and first().unwrap() panics
Part1Panic16 ==
    /\ pc16 = "solve"
    /\ mode16 = "p1"
    /\ min_heap = {}
    /\ states16 = <<>>
    /\ pc16' = "panic"
    /\ UNCHANGED <<mode16, maze, min_heap, visited16, states16, best_score, answer16>>
    /\ SameExcept("day16")

\* part_2: the positions of all solutions in a HashSet; positions.len()
Part2Return16 ==
    /\ pc16 = "solve"
    /\ mode16 = "p2"
    /\ min_heap = {}
    /\ answer16' = Cardinality(UNION {{states16[k].positions[j] :
                                          j \in 1..Len(states16[k].positions)}
                                      : k \in 1..Len(states16)})
    /\ pc16' = "done"
    /\ UNCHANGED <<mode16, maze, min_heap, visited16, states16, best_score>>
    /\ SameExcept("day16")

Next16 ==
    \/ SolvePopAboveBest
    \/ SolvePopWorsePath
    \/ SolvePopExpand
    \/ Part1Return16
    \/ Part1Panic16
    \/ Part2Return16

InitDay16 == Init16 /\ IdleExcept("day16")

SpecDay16 == InitDay16 /\ [][Next16]_vars

\* ========================================================================
\* day09
\* ========================================================================
\* const SUMMATION: SUMMATION[k] is the sum of 0..k
SUMMATION == <<0, 1, 3, 6, 10, 15, 21, 28, 36, 45>>

\* BlockValue::File(id) is <<id>>, BlockValue::Empty is <<>>
File(id) == <<id>>

Empty == <<>>

\* Block::new
Block(start, stop, value) ==
    [start |-> start, stop |-> stop, size |-> stop - start, value |-> value]

\* Block::update_stop: Err leaves the block as it is
update_stop_ok(b, stop) == ~(stop <= b.start)

update_stop(b, stop) ==
    IF update_stop_ok(b, stop) THEN [b EXCEPT !.stop = stop, !.size = stop - b.start] ELSE b

\* Block::update_start: Err leaves the block as it is
update_start_ok(b, start) == ~(start >= b.stop)

update_start(b, start) ==
    IF update_start_ok(b, start) THEN [b EXCEPT !.start = start, !.size = b.stop - start] ELSE b

\* parse_input: the loop over the bytes; digit k of the text has index k - 1
RECURSIVE parse_bytes(_, _, _, _)
parse_bytes(sizes, k, start, mem) ==
    IF k > Len(sizes) THEN mem
    ELSE IF sizes[k] = 0 THEN parse_bytes(sizes, k + 1, start, mem)
    ELSE IF (k - 1) % 2 = 0
    THEN parse_bytes(sizes, k + 1, start + sizes[k],
            [mem EXCEPT !.files =
                Append(@, Block(start, start + sizes[k], File((k - 1) \div 2)))])
    ELSE parse_bytes(sizes, k + 1, start + sizes[k],
            [mem EXCEPT !.gaps = Append(@, Block(start, start + sizes[k], Empty))])

parse_input9(sizes) == parse_bytes(sizes, 1, 0, [files |-> <<>>, gaps |-> <<>>])

\* Memory::checksum; SUMMATION[block.size - 1] panics beyond the table, which
\* no block of the disk maps of the bounds reaches
ChecksumDefined(fs) == \A k \in 1..Len(fs) : fs[k].size - 1 < Len(SUMMATION)

RECURSIVE checksum(_, _)
checksum(fs, k) ==
    IF k > Len(fs) THEN 0
    ELSE fs[k].value[1] * (fs[k].start * fs[k].size + SUMMATION[fs[k].size])
         + checksum(fs, k + 1)

\* files.sort_by(|a, b| a.start.cmp(&b.start)): a stable sort
RECURSIVE insert_by_start(_, _)
insert_by_start(sorted, b) ==
    IF sorted = <<>> THEN <<b>>
    ELSE IF sorted[Len(sorted)].start <= b.start THEN Append(sorted, b)
    ELSE Append(insert_by_start(SubSeq(sorted, 1, Len(sorted) - 1), b), sorted[Len(sorted)])

RECURSIVE sort_by_start(_, _, _)
sort_by_start(fs, k, sorted) ==
    IF k > Len(fs) THEN sorted ELSE sort_by_start(fs, k + 1, insert_by_start(sorted, fs[k]))

\* part_1: if n_files > 1 { ... }: the last two blocks become one when they
\* hold the same file
group_last(fs) ==
    IF Len(fs) > 1
    THEN LET last == fs[Len(fs)]
             prev == fs[Len(fs) - 1]
             rest == SubSeq(fs, 1, Len(fs) - 2)
         IN IF last.value = prev.value
            THEN Append(rest, update_stop(prev, last.stop))
            ELSE fs
    ELSE fs

last_file_stop_of(fs) == IF Len(fs) > 1 THEN fs[Len(fs)].stop ELSE 0

\* ---- parse_input ----
Init9 ==
    /\ input9 \in UNION {[1..n -> 0..MaxSize9] : n \in 1..MaxDigits9}
    /\ memory = parse_input9(input9)
    /\ files9 = <<>>
    /\ i_file = 0
    /\ i_gap = 0
    /\ n_gaps = 0
    /\ total_length = 0
    /\ answer9 = 0
    /\ left_by = Null
    /\ pc9 = "start"

\* part_1: .expect("at least 1 file"), .expect("at least 1 gap")
Part1Expect9 ==
    /\ pc9 = "start"
    /\ memory.files = <<>> \/ memory.gaps = <<>>
    /\ pc9' = "panic"
    /\ UNCHANGED <<input9, memory, files9, i_file, i_gap, n_gaps, total_length, answer9, left_by>>
    /\ SameExcept("day09")

\* part_1: the lets before the loop
Part1Enter9 ==
    /\ pc9 = "start"
    /\ memory.files # <<>>
    /\ memory.gaps # <<>>
    /\ total_length' =
        (IF memory.files[Len(memory.files)].stop >= memory.gaps[Len(memory.gaps)].stop
         THEN memory.files[Len(memory.files)].stop
         ELSE memory.gaps[Len(memory.gaps)].stop)
    /\ n_gaps' = Len(memory.gaps) - 1
    /\ files9' = <<>>
    /\ i_file' = Len(memory.files) - 1
    /\ i_gap' = 0
    /\ pc9' = "loop"
    /\ UNCHANGED <<input9, memory, answer9, left_by>>
    /\ SameExcept("day09")

\* part_1, one turn of the while loop that breaks at i_file == 0
LoopBreakFiles ==
    /\ pc9 = "loop"
    /\ LET file == memory.files[i_file + 1]
           gap == memory.gaps[i_gap + 1]
           block == Block(gap.start,
                          gap.start + (IF file.size <= gap.size THEN file.size ELSE gap.size),
                          file.value)
       IN
        /\ file.start >= gap.stop
        /\ ~update_stop_ok(file, file.stop - block.size)
        /\ i_file = 0
    /\ left_by' = "break"
    /\ pc9' = "after"
    /\ UNCHANGED <<input9, memory, files9, i_file, i_gap, n_gaps, total_length, answer9>>
    /\ SameExcept("day09")

\* part_1, one turn of the while loop that breaks at i_gap == n_gaps: the file
\* has given up the block (or i_file has moved on), the block is not pushed
LoopBreakGaps ==
    /\ pc9 = "loop"
    /\ LET file == memory.files[i_file + 1]
           gap == memory.gaps[i_gap + 1]
           block == Block(gap.start,
                          gap.start + (IF file.size <= gap.size THEN file.size ELSE gap.size),
                          file.value)
           file_ok == update_stop_ok(file, file.stop - block.size)
       IN
        /\ file.start >= gap.stop
        /\ file_ok \/ i_file # 0
        /\ ~update_start_ok(gap, gap.start + block.size)
        /\ i_gap = n_gaps
        /\ memory' = [memory EXCEPT
                        !.files[i_file + 1] = update_stop(file, file.stop - block.size)]
        /\ i_file' = IF file_ok THEN i_file ELSE i_file - 1
    /\ left_by' = "break"
    /\ pc9' = "after"
    /\ UNCHANGED <<input9, files9, i_gap, n_gaps, total_length, answer9>>
    /\ SameExcept("day09")

\* part_1, one turn of the while loop that ends with files.push(block)
LoopPush ==
    /\ pc9 = "loop"
    /\ LET file == memory.files[i_file + 1]
           gap == memory.gaps[i_gap + 1]
           block == Block(gap.start,
                          gap.start + (IF file.size <= gap.size THEN file.size ELSE gap.size),
                          file.value)
           file_ok == update_stop_ok(file, file.stop - block.size)
           gap_ok == update_start_ok(gap, gap.start + block.size)
       IN
        /\ file.start >= gap.stop
        /\ file_ok \/ i_file # 0
        /\ gap_ok \/ i_gap # n_gaps
        /\ memory' = [memory EXCEPT
                        !.files[i_file + 1] = update_stop(file, file.stop - block.size),
                        !.gaps[i_gap + 1] = update_start(gap, gap.start + block.size)]
        /\ i_file' = IF file_ok THEN i_file ELSE i_file - 1
        /\ i_gap' = IF gap_ok THEN i_gap ELSE i_gap + 1
        /\ files9' = Append(files9, block)
    /\ UNCHANGED <<pc9, input9, n_gaps, total_length, answer9, left_by>>
    /\ SameExcept("day09")

\* part_1: the condition of the while loop is false
LoopExit ==
    /\ pc9 = "loop"
    /\ ~(memory.files[i_file + 1].start >= memory.gaps[i_gap + 1].stop)
    /\ left_by' = "condition"
    /\ pc9' = "after"
    /\ UNCHANGED <<input9, memory, files9, i_file, i_gap, n_gaps, total_length, answer9>>
    /\ SameExcept("day09")

\* part_1 after the loop: extend with the drained files, sort, group the last
\* two blocks, store files and the one gap, return memory.checksum()
Part1Return9 ==
    /\ pc9 = "after"
    /\ LET extended == files9 \o SubSeq(memory.files, 1, i_file + 1)
           sorted == sort_by_start(extended, 1, <<>>)
           grouped == group_last(sorted)
       IN
        /\ ChecksumDefined(grouped)
        /\ memory' = [files |-> grouped,
                      gaps |-> <<Block(last_file_stop_of(sorted), total_length, Empty)>>]
        /\ files9' = grouped
        /\ answer9' = checksum(grouped, 1)
    /\ pc9' = "done"
    /\ UNCHANGED <<input9, i_file, i_gap, n_gaps, total_length, left_by>>
    /\ SameExcept("day09")

Next9 ==
    \/ Part1Expect9
    \/ Part1Enter9
    \/ LoopBreakFiles
    \/ LoopBreakGaps
    \/ LoopPush
    \/ LoopExit
    \/ Part1Return9

InitDay09 == Init9 /\ IdleExcept("day09")

SpecDay09 == InitDay09 /\ [][Next9]_vars

\* ---- day09, part_2 ----
\* Block::move_to_start
move_to_start(b, start) ==
    [b EXCEPT !.stop = b.stop - (b.start - start), !.start = start]

\* part_2: for i_gap in 0..n_gaps: Some(i_gap) of the first gap that houses
\* the file, None after the break at a gap right of the file or at the end
RECURSIVE first_gap(_, _, _, _)
first_gap(gaps, n, file, k) ==
    IF k >= n THEN None
    ELSE IF gaps[k + 1].start > file.start THEN None
    ELSE IF gaps[k + 1].size >= file.size THEN <<k>>
    ELSE first_gap(gaps, n, file, k + 1)

\* Vec::remove(i_gap)
remove(seq, k) == SubSeq(seq, 1, k) \o SubSeq(seq, k + 2, Len(seq))

Init9P2 ==
    /\ input9 \in UNION {[1..n -> 0..MaxSize9] : n \in 1..MaxDigits9}
    /\ memory = parse_input9(input9)
    /\ files9 = <<>>
    /\ i_file = 0
    /\ i_gap = 0
    /\ n_gaps = 0
    /\ total_length = 0
    /\ answer9 = 0
    /\ left_by = Null
    /\ pc9 = "p2_start"

\* part_2: let mut n_gaps = memory.gaps.len(); the iterator stands on the last file
Part2Enter9 ==
    /\ pc9 = "p2_start"
    /\ n_gaps' = Len(memory.gaps)
    /\ i_file' = Len(memory.files) - 1
    /\ pc9' = "p2_loop"
    /\ UNCHANGED <<input9, memory, files9, i_gap, total_length, answer9, left_by>>
    /\ SameExcept("day09")

\* part_2, the for loop over the files: if n_gaps == 0 { break }
Part2BreakNoGaps ==
    /\ pc9 = "p2_loop"
    /\ i_file >= 0
    /\ n_gaps = 0
    /\ left_by' = "break"
    /\ pc9' = "p2_after"
    /\ UNCHANGED <<input9, memory, files9, i_file, i_gap, n_gaps, total_length, answer9>>
    /\ SameExcept("day09")

\* part_2, one file: no gap of the first n_gaps left of it houses it
Part2FileStays ==
    /\ pc9 = "p2_loop"
    /\ i_file >= 0
    /\ n_gaps # 0
    /\ first_gap(memory.gaps, n_gaps, memory.files[i_file + 1], 0) = None
    /\ i_file' = i_file - 1
    /\ UNCHANGED <<pc9, input9, memory, files9, i_gap, n_gaps, total_length, answer9, left_by>>
    /\ SameExcept("day09")

\* part_2, one file: it moves to the start of the gap; the gap shrinks, or is
\* removed when update_start fails; n_gaps -= 1 in both cases
Part2FileMoves ==
    /\ pc9 = "p2_loop"
    /\ i_file >= 0
    /\ n_gaps # 0
    /\ LET found == first_gap(memory.gaps, n_gaps, memory.files[i_file + 1], 0)
           gap == memory.gaps[found[1] + 1]
           moved == move_to_start(memory.files[i_file + 1], gap.start)
       IN
        /\ found # None
        /\ memory' = [files |-> [memory.files EXCEPT ![i_file + 1] = moved],
                      gaps |-> IF update_start_ok(gap, moved.stop)
                               THEN [memory.gaps EXCEPT ![found[1] + 1] =
                                        update_start(gap, moved.stop)]
                               ELSE remove(memory.gaps, found[1])]
        /\ i_gap' = found[1]
    /\ n_gaps' = n_gaps - 1
    /\ i_file' = i_file - 1
    /\ UNCHANGED <<pc9, input9, files9, total_length, answer9, left_by>>
    /\ SameExcept("day09")

\* part_2: the iterator over the files is at its end
Part2LoopEnd ==
    /\ pc9 = "p2_loop"
    /\ i_file < 0
    /\ left_by' = "condition"
    /\ pc9' = "p2_after"
    /\ UNCHANGED <<input9, memory, files9, i_file, i_gap, n_gaps, total_length, answer9>>
    /\ SameExcept("day09")

\* part_2: memory.files.sort_by(start); memory.checksum()
Part2Return9 ==
    /\ pc9 = "p2_after"
    /\ ChecksumDefined(memory.files)
    /\ memory' = [memory EXCEPT !.files = sort_by_start(memory.files, 1, <<>>)]
    /\ answer9' = checksum(sort_by_start(memory.files, 1, <<>>), 1)
    /\ pc9' = "done"
    /\ UNCHANGED <<input9, files9, i_file, i_gap, n_gaps, total_length, left_by>>
    /\ SameExcept("day09")

Next9P2 ==
    \/ Part2Enter9
    \/ Part2BreakNoGaps
    \/ Part2FileStays
    \/ Part2FileMoves
    \/ Part2LoopEnd
    \/ Part2Return9

InitDay09P2 == Init9P2 /\ IdleExcept("day09")

SpecDay09P2 == InitDay09P2 /\ [][Next9P2]_vars

\* ========================================================================
\* parse_input of day01, day03 and day13
\* ========================================================================
NewLine == "\n"

\* str::lines: the pieces between line ends; no last empty piece
RECURSIVE lines(_, _, _, _)
lines(text, k, piece, acc) ==
    IF k > Len(text) THEN (IF piece = <<>> THEN acc ELSE Append(acc, piece))
    ELSE IF text[k] = NewLine THEN lines(text, k + 1, <<>>, Append(acc, piece))
    ELSE lines(text, k + 1, Append(piece, text[k]), acc)

\* ---- day01 ----
\* The characters of the texts: two digits, the space, another character
Chars01 == {"1", "2", " ", "x", NewLine}

DigitValue(c) == IF c = "1" THEN 1 ELSE 2

IsDigit(c) == c \in {"1", "2"}

\* many1 / space1: how many characters from position k on satisfy the test
RECURSIVE many_digits(_, _)
many_digits(line, k) ==
    IF k <= Len(line) /\ IsDigit(line[k]) THEN 1 + many_digits(line, k + 1) ELSE 0

RECURSIVE many_spaces(_, _)
many_spaces(line, k) ==
    IF k <= Len(line) /\ line[k] = " " THEN 1 + many_spaces(line, k + 1) ELSE 0

\* output.1.parse::<T>() of the recognized digits
RECURSIVE decimal(_, _, _)
decimal(line, from, n) ==
    IF n = 0 THEN 0
    ELSE decimal(line, from, n - 1) * 10 + DigitValue(line[from + n - 1])

\* Mutant: the pair has to be the whole line
separated_pair_WholeLine(line) ==
    LET d1 == many_digits(line, 1)
        sp == many_spaces(line, d1 + 1)
        d2 == many_digits(line, d1 + sp + 1)
    IN IF d1 >= 1 /\ sp >= 1 /\ d2 >= 1 /\ d1 + sp + d2 = Len(line)
       THEN <<decimal(line, 1, d1), decimal(line, d1 + sp + 1, d2)>>
       ELSE None

\* separated_pair(parse_decimal, space1, parse_decimal)(line): the pair, or
\* None for Err; what follows the pair in the line is the rest nobody reads
separated_pair(line) ==
    LET d1 == many_digits(line, 1)
        sp == many_spaces(line, d1 + 1)
        d2 == many_digits(line, d1 + sp + 1)
    IN IF d1 >= 1 /\ sp >= 1 /\ d2 >= 1
       THEN <<decimal(line, 1, d1), decimal(line, d1 + sp + 1, d2)>>
       ELSE None

\* ---- day03 ----
\* The tokens of the texts: two instructions, another character, the line end
Tokens03 == {"mul(1,2)", "do()", "x", NewLine}

\* many0(many_till(anychar, parse_instruction))(line): the instructions of the
\* line in their order; it never fails
RECURSIVE many0_instructions(_, _)
many0_instructions(line, k) ==
    IF k > Len(line) THEN <<>>
    ELSE IF line[k] = "x" THEN many0_instructions(line, k + 1)
    ELSE <<line[k]>> \o many0_instructions(line, k + 1)

RECURSIVE buffer_of(_, _)
buffer_of(ls, k) ==
    IF k > Len(ls) THEN <<>> ELSE many0_instructions(ls[k], 1) \o buffer_of(ls, k + 1)

\* ---- day13 ----
\* The tokens of the texts: the three lines of a machine, each with its line
\* end, a line end alone, and any other text
Tokens13 == {"Button A", "Button B", "Prize", NewLine, "x"}

\* parse_machine at token k: tuple((parse_button_a, parse_button_b, parse_prize))
parse_machine(text, k) ==
    /\ k + 2 <= Len(text)
    /\ text[k] = "Button A"
    /\ text[k + 1] = "Button B"
    /\ text[k + 2] = "Prize"

\* separated_list1(line_ending, parse_machine): the count of machines read
\* from token k on, after a first one: a separator and a machine at a time,
\* until one of the two fails
RECURSIVE separated_more(_, _)
separated_more(text, k) ==
    IF k <= Len(text) /\ text[k] = NewLine /\ parse_machine(text, k + 1)
    THEN 1 + separated_more(text, k + 4)
    ELSE 0

\* ---- the call ----
TextsOver(alphabet) == UNION {[1..n -> alphabet] : n \in 0..MaxText}

InitP ==
    /\ dayP \in {"day01", "day03", "day13"}
    /\ textP \in (CASE dayP = "day01" -> TextsOver(Chars01)
                    [] dayP = "day03" -> TextsOver(Tokens03)
                    [] dayP = "day13" -> TextsOver(Tokens13))
    /\ outcomeP = [kind |-> Null, value |-> <<>>]
    /\ pcP = "call"

\* day01 parse_input: a line gives Err and expect panics
ParseDay01Panic ==
    /\ pcP = "call"
    /\ dayP = "day01"
    /\ \E k \in 1..Len(lines(textP, 1, <<>>, <<>>)) :
            separated_pair(lines(textP, 1, <<>>, <<>>)[k]) = None
    /\ outcomeP' = [kind |-> "panic", value |-> <<>>]
    /\ pcP' = "done"
    /\ UNCHANGED <<dayP, textP>>
    /\ SameExcept("parse")

\* day01 parse_input: every line gives a pair; [left, right] is returned
ParseDay01Return ==
    /\ pcP = "call"
    /\ dayP = "day01"
    /\ LET ls == lines(textP, 1, <<>>, <<>>) IN
        /\ \A k \in 1..Len(ls) : separated_pair(ls[k]) # None
        /\ outcomeP' = [kind |-> "value",
                        value |-> <<[k \in 1..Len(ls) |-> separated_pair(ls[k])[1]],
                                    [k \in 1..Len(ls) |-> separated_pair(ls[k])[2]]>>]
    /\ pcP' = "done"
    /\ UNCHANGED <<dayP, textP>>
    /\ SameExcept("parse")

\* day03 parse_input: the parser of a line cannot fail; buffer is returned
ParseDay03Return ==
    /\ pcP = "call"
    /\ dayP = "day03"
    /\ outcomeP' = [kind |-> "value",
                    value |-> buffer_of(lines(textP, 1, <<>>, <<>>), 1)]
    /\ pcP' = "done"
    /\ UNCHANGED <<dayP, textP>>
    /\ SameExcept("parse")

\* day13 parse_input: no machine at the start, finish()? returns the Err
ParseDay13Err ==
    /\ pcP = "call"
    /\ dayP = "day13"
    /\ ~parse_machine(textP, 1)
    /\ outcomeP' = [kind |-> "err", value |-> <<>>]
    /\ pcP' = "done"
    /\ UNCHANGED <<dayP, textP>>
    /\ SameExcept("parse")

\* day13 parse_input: Ok(machines), the text behind the last machine unread
ParseDay13Ok ==
    /\ pcP = "call"
    /\ dayP = "day13"
    /\ parse_machine(textP, 1)
    /\ outcomeP' = [kind |-> "value",
                    value |-> [k \in 1..(1 + separated_more(textP, 4)) |-> "ClawMachine"]]
    /\ pcP' = "done"
    /\ UNCHANGED <<dayP, textP>>
    /\ SameExcept("parse")

NextP ==
    \/ ParseDay01Panic
    \/ ParseDay01Return
    \/ ParseDay03Return
    \/ ParseDay13Err
    \/ ParseDay13Ok

InitParse == InitP /\ IdleExcept("parse")

SpecParse == InitParse /\ [][NextP]_vars

\* ---- C6 ----
\* The run of packages that starts at cell p and goes on in direction d
RECURSIVE PackageRun(_, _, _)
PackageRun(m, p, d) ==
    IF InMatrix(m, p) /\ At(m, p) = "Package"
    THEN {p} \cup PackageRun(m, CoordAdd(p, CoordinateFrom(d)), d)
    ELSE {}

\* The first cell behind the run
BehindRun(m, p, d) == CoordAdd(p, CoordMul(CoordinateFrom(d), Cardinality(PackageRun(m, p, d))))

\* The matrix m with every package of the run shifted one cell in direction d
ShiftRun(m, p, d) ==
    LET run == PackageRun(m, p, d)
        shifted == {CoordAdd(q, CoordinateFrom(d)) : q \in run}
    IN [r \in 1..Len(m) |-> [c \in 1..Len(m[1]) |->
            IF <<r - 1, c - 1>> \in shifted THEN "Package"
            ELSE IF <<r - 1, c - 1>> \in run THEN "Empty"
            ELSE m[r][c]]]

\* C6: a step of Warehouse<Narrow>::take_step with direction d: an Empty cell
\* ahead takes the robot and nothing else changes; a Wall ahead leaves all as it
\* is; a Package ahead, with k >= 0 more packages behind it and then an Empty
\* cell, lets the robot advance one cell and shifts all k+1 packages one cell
\* in d; with a Wall behind the run neither the robot nor a package moves.
C6_TakeStepNarrow ==
    [][(pc15 = "run" /\ i15' = i15 + 1) =>
        LET d == directions[i15 + 1]
            ahead == CoordAdd(robot, CoordinateFrom(d))
            behind == BehindRun(wh, ahead, d)
        IN
        /\ At(wh, ahead) = "Empty" => (robot' = ahead /\ wh' = wh)
        /\ At(wh, ahead) = "Wall" => (robot' = robot /\ wh' = wh)
        /\ (At(wh, ahead) = "Package" /\ InMatrix(wh, behind) /\ At(wh, behind) = "Empty")
            => (robot' = ahead /\ wh' = ShiftRun(wh, ahead, d))
        /\ (At(wh, ahead) = "Package" /\ InMatrix(wh, behind) /\ At(wh, behind) = "Wall")
            => (robot' = robot /\ wh' = wh)
    ]_vars

\* After one step the robot has pushed a run of two packages into an empty cell.
C6_Witness ==
    /\ pc15 = "run"
    /\ i15 = 1
    /\ LET d == directions[1]
           ahead == CoordAdd(robot0, CoordinateFrom(d))
       IN
        /\ InMatrix(wh0, ahead)
        /\ Cardinality(PackageRun(wh0, ahead, d)) = 2
        /\ robot = ahead
        /\ wh = ShiftRun(wh0, ahead, d)
        /\ wh # wh0


\* ---- C7 ----
\* The box (named by the cell of its left half) a box half belongs to
BoxOf(m, q) == IF At(m, q) = "PackageLeft" THEN q ELSE west(q)

\* The cells directly ahead, in direction d, of the two halves of box b
AheadOfBox(b, d) == {Towards(b, d), Towards(east(b), d)} \ {b, east(b)}

\* The boxes pushed transitively by the boxes of P
RECURSIVE PushedBoxes(_, _, _)
PushedBoxes(m, d, P) ==
    LET ahead == UNION {AheadOfBox(b, d) : b \in P}
        more == {BoxOf(m, q) : q \in {c \in ahead : InMatrix(m, c) /\ At(m, c) \in WidePackages}}
    IN IF more \subseteq P THEN P ELSE PushedBoxes(m, d, P \cup more)

\* A box of P has a wall directly ahead of one of its halves
WallAhead(m, d, P) ==
    \E b \in P : \E q \in AheadOfBox(b, d) : InMatrix(m, q) /\ At(m, q) = "Wall"

\* A half of a box of P has the end of the matrix directly ahead
EdgeAhead(m, d, P) == \E b \in P : \E q \in AheadOfBox(b, d) : ~InMatrix(m, q)

\* The matrix m with every box of P one cell further in direction d
ShiftBoxes(m, d, P) ==
    LET lefts == {Towards(b, d) : b \in P}
        rights == {Towards(east(b), d) : b \in P}
        old == P \cup {east(b) : b \in P}
    IN [r \in 1..Len(m) |-> [c \in 1..Len(m[1]) |->
            LET q == <<r - 1, c - 1>> IN
            IF q \in lefts THEN "PackageLeft"
            ELSE IF q \in rights THEN "PackageRight"
            ELSE IF q \in old THEN "Empty"
            ELSE m[r][c]]]

\* The robot faces a box half in the direction it reads next
C7_FacesBox ==
    /\ pc15 = "run"
    /\ i15 < Len(directions)
    /\ InMatrix(wh, CoordAdd(robot, CoordinateFrom(directions[i15 + 1])))
    /\ At(wh, CoordAdd(robot, CoordinateFrom(directions[i15 + 1]))) \in WidePackages

\* C7 as stated: a step of Warehouse<Wide>::take_step toward a box half, P the
\* boxes pushed transitively: when no box of P has a Wall directly ahead of a
\* half, the robot and every box of P move one cell in the direction and no
\* other cell changes; otherwise the robot and all boxes stay.
C7_PushOrStay ==
    [][C7_FacesBox =>
        LET d == directions[i15 + 1]
            ahead == CoordAdd(robot, CoordinateFrom(d))
            P == PushedBoxes(wh, d, {BoxOf(wh, ahead)})
        IN IF ~WallAhead(wh, d, P)
           THEN robot' = ahead /\ wh' = ShiftBoxes(wh, d, P)
           ELSE robot' = robot /\ wh' = wh
    ]_vars

\* C7, amended: the statement holds when every cell directly ahead of a box of
\* P lies inside the matrix. When one lies outside and no box of P has a Wall
\* ahead, the step panics on the index and moves nothing; when one lies outside
\* and a box of P has a Wall ahead, the step panics or leaves all in place.
C7_PushOrStayInside ==
    [][C7_FacesBox =>
        LET d == directions[i15 + 1]
            ahead == CoordAdd(robot, CoordinateFrom(d))
            P == PushedBoxes(wh, d, {BoxOf(wh, ahead)})
            pushed == pc15' = "run" /\ i15' = i15 + 1 /\ robot' = ahead
                      /\ wh' = ShiftBoxes(wh, d, P)
            stayed == pc15' = "run" /\ i15' = i15 + 1 /\ robot' = robot /\ wh' = wh
            panicked == pc15' = "panic" /\ i15' = i15 /\ robot' = robot /\ wh' = wh
        IN
        /\ (~EdgeAhead(wh, d, P) /\ ~WallAhead(wh, d, P)) => pushed
        /\ (~EdgeAhead(wh, d, P) /\ WallAhead(wh, d, P)) => stayed
        /\ (EdgeAhead(wh, d, P) /\ ~WallAhead(wh, d, P)) => panicked
        /\ (EdgeAhead(wh, d, P) /\ WallAhead(wh, d, P)) => (panicked \/ stayed)
    ]_vars

\* The robot has pushed a box north that pushed a second box, one column off
\* the first, and both have moved one row.
C7_Witness ==
    /\ pc15 = "run"
    /\ i15 = 1
    /\ directions[1] = "North"
    /\ LET ahead == north(robot0)
           P == PushedBoxes(wh0, "North", {BoxOf(wh0, ahead)})
       IN
        /\ InMatrix(wh0, ahead)
        /\ At(wh0, ahead) \in WidePackages
        /\ Cardinality(P) = 2
        /\ \E a \in P : \E b \in P : b[1] = a[1] - 1 /\ b[2] # a[2]
        /\ robot = ahead
        /\ wh = ShiftBoxes(wh0, "North", P)
        /\ wh # wh0

\* ---- C8, C9 ----
\* The walks of the claims: the walker stands on a non-wall cell and faces a
\* direction; a forward step costs 1, a turn of 90 degrees costs 1000.
OpenCells(m) == {q \in CellsOf(shape(m)) : At(m, q)}

WalkNodes(m) == OpenCells(m) \X Cardinals

Perpendicular(d) == IF d \in {"North", "South"} THEN {"East", "West"} ELSE {"North", "South"}

Opposite(d) ==
    CASE d = "North" -> "South"
      [] d = "East" -> "West"
      [] d = "South" -> "North"
      [] d = "West" -> "East"

\* More than any walk without repeated (cell, direction) can cost
Unreached(m) == 1000 * 4 * Len(m) * Len(m[1]) + 1

MinOf(S) == CHOOSE x \in S : \A y \in S : x <= y

\* One round of relaxation of the scores from the start ...
RelaxFrom(m, dist) ==
    [n \in WalkNodes(m) |->
        MinOf({dist[n]}
              \cup {dist[<<n[1], e>>] + 1000 : e \in Perpendicular(n[2])}
              \cup {dist[<<q, n[2]>>] + 1 :
                        q \in {cardinal(n[1], Opposite(n[2]))} \cap OpenCells(m)})]

\* ... and of the scores to the end
RelaxTo(m, dist) ==
    [n \in WalkNodes(m) |->
        MinOf({dist[n]}
              \cup {dist[<<n[1], e>>] + 1000 : e \in Perpendicular(n[2])}
              \cup {dist[<<q, n[2]>>] + 1 :
                        q \in {cardinal(n[1], n[2])} \cap OpenCells(m)})]

RECURSIVE ScoresFrom(_, _)
ScoresFrom(m, dist) ==
    IF RelaxFrom(m, dist) = dist THEN dist ELSE ScoresFrom(m, RelaxFrom(m, dist))

RECURSIVE ScoresTo(_, _)
ScoresTo(m, dist) ==
    IF RelaxTo(m, dist) = dist THEN dist ELSE ScoresTo(m, RelaxTo(m, dist))

\* The least score of a walk from S facing East to each (cell, direction)
FromStart(mz) ==
    ScoresFrom(mz.matrix, [n \in WalkNodes(mz.matrix) |->
        IF n = <<mz.start, "East">> THEN 0 ELSE Unreached(mz.matrix)])

\* The least score of a walk from each (cell, direction) to E
ToEnd(mz) ==
    ScoresTo(mz.matrix, [n \in WalkNodes(mz.matrix) |->
        IF n[1] = mz.end THEN 0 ELSE Unreached(mz.matrix)])

MinScore(mz) == MinOf({FromStart(mz)[<<mz.end, d>>] : d \in Cardinals})

EndReachable(mz) == MinScore(mz) < Unreached(mz.matrix)

\* The cells on at least one walk of the least score
CellsOnBestPaths(mz) ==
    LET from == FromStart(mz)
        to == ToEnd(mz)
        best == MinOf({from[<<mz.end, d>>] : d \in Cardinals})
    IN IF best >= Unreached(mz.matrix) THEN {}
       ELSE {q \in OpenCells(mz.matrix) :
                \E d \in Cardinals : from[<<q, d>>] + to[<<q, d>>] = best}

\* C8: whenever E is reachable from S, part_1 returns the minimum over all
\* walks from S, facing East, to E of forward steps + 1000 x turns of 90 degrees.
C8_Part1ReturnsMinScore ==
    (mode16 = "p1" /\ pc16 \in {"done", "panic"} /\ EndReachable(maze))
        => (pc16 = "done" /\ answer16 = MinScore(maze))

\* C9: part_2 returns the number of distinct cells, S and E included, that lie
\* on at least one minimum-score path from S to E.
C9_Part2CountsBestCells ==
    (mode16 = "p2" /\ pc16 = "done")
        => answer16 = Cardinality(CellsOnBestPaths(maze))

\* With a wall or the end of the maze west of S no best walk starts with a
\* half turn, and part_1 returns the minimum of C8 ...
C8_MinScoreWhenWestClosed ==
    (mode16 = "p1" /\ pc16 \in {"done", "panic"} /\ EndReachable(maze)
        /\ Closed(maze.matrix, west(maze.start)))
        => (pc16 = "done" /\ answer16 = MinScore(maze))

\* ... and part_2 the count of C9.
C9_BestCellsWhenWestClosed ==
    (mode16 = "p2" /\ pc16 = "done" /\ Closed(maze.matrix, west(maze.start)))
        => answer16 = Cardinality(CellsOnBestPaths(maze))

\* ---- C10 ----
\* The disk the map describes: position p holds the id of its file, or -1
RECURSIVE DiskOf(_, _)
DiskOf(sizes, k) ==
    IF k > Len(sizes) THEN <<>>
    ELSE [p \in 1..sizes[k] |-> IF (k - 1) % 2 = 0 THEN (k - 1) \div 2 ELSE -1]
         \o DiskOf(sizes, k + 1)

FreeAt(disk) == {p \in 1..Len(disk) : disk[p] = -1}

UsedAt(disk) == {p \in 1..Len(disk) : disk[p] # -1}

MaxOf(S) == CHOOSE x \in S : \A y \in S : x >= y

\* Move the rightmost file block into the leftmost free position until no free
\* position lies to the left of a file block
RECURSIVE Compact(_)
Compact(disk) ==
    IF FreeAt(disk) = {} \/ UsedAt(disk) = {} \/ MinOf(FreeAt(disk)) > MaxOf(UsedAt(disk))
    THEN disk
    ELSE Compact([disk EXCEPT ![MinOf(FreeAt(disk))] = disk[MaxOf(UsedAt(disk))],
                              ![MaxOf(UsedAt(disk))] = -1])

\* The sum over the positions (counted from 0) of position x id
RECURSIVE PositionSum(_, _)
PositionSum(disk, p) ==
    IF p > Len(disk) THEN 0
    ELSE (IF disk[p] = -1 THEN 0 ELSE (p - 1) * disk[p]) + PositionSum(disk, p + 1)

\* C10: for every disk map with at least one file and one gap, part_1 returns
\* the checksum of the layout that moving the rightmost file block into the
\* leftmost free position, until no free position lies left of a file block,
\* ends in.
C10_Part1Checksum ==
    (pc9 \in {"done", "panic"} /\ UsedAt(DiskOf(input9, 1)) # {}
        /\ FreeAt(DiskOf(input9, 1)) # {})
        => (pc9 = "done" /\ answer9 = PositionSum(Compact(DiskOf(input9, 1)), 1))

\* When the while loop of part_1 ends by its condition, not by a break,
\* part_1 returns the checksum of C10.
C10_ChecksumWithoutBreak ==
    (pc9 = "done" /\ left_by = "condition")
        => answer9 = PositionSum(Compact(DiskOf(input9, 1)), 1)

\* ---- C2 ----
\* A line in the format of day01: an integer, spaces, an integer, nothing else
PairLine(line) ==
    \E i \in 1..Len(line) : \E j \in (i + 1)..(Len(line) - 1) :
        /\ \A k \in 1..i : IsDigit(line[k])
        /\ \A k \in (i + 1)..j : line[k] = " "
        /\ \A k \in (j + 1)..Len(line) : IsDigit(line[k])

\* A line that starts in the format of day01
StartsWithPair(line) == \E n \in 1..Len(line) : PairLine(SubSeq(line, 1, n))

\* A text in the format of day13: machines of three lines, a blank line between
MachinesText(text) ==
    /\ Len(text) % 4 = 3
    /\ \A k \in 1..Len(text) :
        text[k] = (CASE k % 4 = 1 -> "Button A"
                     [] k % 4 = 2 -> "Button B"
                     [] k % 4 = 3 -> "Prize"
                     [] k % 4 = 0 -> NewLine)

\* The text does not match the format of the day; day03 reads instructions
\* out of any text
Malformed ==
    CASE dayP = "day01" -> \E k \in 1..Len(lines(textP, 1, <<>>, <<>>)) :
                                ~PairLine(lines(textP, 1, <<>>, <<>>)[k])
      [] dayP = "day03" -> FALSE
      [] dayP = "day13" -> ~MachinesText(textP)

FileStart(disk, id) == MinOf({p \in 1..Len(disk) : disk[p] = id})

FileSize(disk, id) == Cardinality({p \in 1..Len(disk) : disk[p] = id})

\* The leftmost positions left of the file where a span of free space houses it
SpansFor(disk, id) ==
    {p \in 1..Len(disk) :
        /\ p + FileSize(disk, id) <= FileStart(disk, id)
        /\ \A q \in p..(p + FileSize(disk, id) - 1) : disk[q] = -1}

MoveWhole(disk, id) ==
    IF SpansFor(disk, id) = {} THEN disk
    ELSE LET to == MinOf(SpansFor(disk, id))
             from == FileStart(disk, id)
             size == FileSize(disk, id)
         IN [p \in 1..Len(disk) |->
                IF p \in to..(to + size - 1) THEN id
                ELSE IF p \in from..(from + size - 1) THEN -1
                ELSE disk[p]]

\* The files in decreasing id order, each moved at most once
RECURSIVE CompactWhole(_, _)
CompactWhole(disk, id) ==
    IF id < 0 THEN disk
    ELSE CompactWhole(IF FileSize(disk, id) = 0 THEN disk ELSE MoveWhole(disk, id), id - 1)

WholeFileChecksum(sizes) ==
    PositionSum(CompactWhole(DiskOf(sizes, 1), Len(sizes) \div 2), 1)

\* C11: part_2 returns the checksum of the layout that taking the files in
\* decreasing id order, and moving each whole file at most once into the
\* leftmost span of free space to its left that houses it, ends in.
C11_Part2Checksum == pc9 = "done" => answer9 = WholeFileChecksum(input9)

\* On disk maps without a digit 0 part_2 returns the checksum of C11.
C11_ChecksumWithoutZero ==
    (pc9 = "done" /\ \A k \in 1..Len(input9) : input9[k] # 0)
        => answer9 = WholeFileChecksum(input9)

\* ========================================================================
\* day02
\* ========================================================================
MaxLevel2 == 6      \* the levels of a report are 1..MaxLevel2
MaxLen2 == 4        \* a report has 1..MaxLen2 levels
MaxReports2 == 2    \* the for loop of part_2 takes at most MaxReports2 reports

MAX_DELTA == 3

abs(x) == IF x < 0 THEN -x ELSE x

signum(x) == IF x > 0 THEN 1 ELSE IF x < 0 THEN -1 ELSE 0

\* is_ok: the for loop over data.windows(2) from window k on; gradient is None
\* or Some of the gradient the first delta gave
RECURSIVE is_ok_from(_, _, _, _)
is_ok_from(data, k, gradient, max_delta) ==
    IF k + 1 > Len(data) THEN TRUE
    ELSE LET delta == data[k] - data[k + 1]
             gradient_next == IF delta > 0 THEN <<"Descending">> ELSE <<"Ascending">>
             gradient_now == IF gradient = None THEN gradient_next ELSE gradient
         IN IF delta = 0 THEN FALSE
            ELSE IF gradient_now # gradient_next THEN FALSE
            ELSE IF abs(delta) > max_delta THEN FALSE
            ELSE is_ok_from(data, k + 1, gradient_now, max_delta)

is_ok(data, max_delta) == is_ok_from(data, 1, None, max_delta)

\* try_remove: idx counts from 0
try_remove(vec, idx, max_delta) == is_ok(remove(vec, idx), max_delta)

\* The body of `for i in 1..(vec.len() - 2)` at i (from 0): TRUE when it adds
\* to the score and breaks
window_fixes(vec, i) ==
    LET delta1 == vec[i + 1] - vec[i + 2]
        delta2 == vec[i + 2] - vec[i + 3]
    IN \/ /\ abs(delta1) \notin 1..3
          /\ \/ try_remove(vec, i, MAX_DELTA)
             \/ try_remove(vec, i + 1, MAX_DELTA)
       \/ /\ signum(delta1) # signum(delta2)
          /\ \/ try_remove(vec, i, MAX_DELTA)
             \/ try_remove(vec, i + 1, MAX_DELTA)
             \/ try_remove(vec, i + 2, MAX_DELTA)

ends_fix(vec) ==
    \/ try_remove(vec, 0, MAX_DELTA)
    \/ try_remove(vec, Len(vec) - 1, MAX_DELTA)

\* parse_input: every line holds one number or more (separated_list1)
Reports == UNION {[1..n -> 1..MaxLevel2] : n \in 1..MaxLen2}

Init2 ==
    /\ pc2 = "for"
    /\ vec2 = <<>>
    /\ n_vec = 0
    /\ score2 = 0

\* for vec in data: the next report
Part2ForNext2 ==
    /\ pc2 = "for"
    /\ n_vec < MaxReports2
    /\ \E vec \in Reports : vec2' = vec
    /\ n_vec' = n_vec + 1
    /\ pc2' = "vec"
    /\ UNCHANGED score2
    /\ SameExcept("day02")

\* if is_ok(vec, MAX_DELTA) { score += 1; continue; }
Part2SafeAsGiven ==
    /\ pc2 = "vec"
    /\ is_ok(vec2, MAX_DELTA)
    /\ score2' = score2 + 1
    /\ vec2' = <<>>
    /\ pc2' = "for"
    /\ UNCHANGED n_vec
    /\ SameExcept("day02")

\* if try_remove(vec, 0, ..) || try_remove(vec, vec.len() - 1, ..) { score += 1; continue; }
Part2SafeWithoutEnd ==
    /\ pc2 = "vec"
    /\ ~is_ok(vec2, MAX_DELTA)
    /\ ends_fix(vec2)
    /\ score2' = score2 + 1
    /\ vec2' = <<>>
    /\ pc2' = "for"
    /\ UNCHANGED n_vec
    /\ SameExcept("day02")

\* for i in 1..(vec.len() - 2): some i adds to the score and breaks
Part2SafeInWindow ==
    /\ pc2 = "vec"
    /\ ~is_ok(vec2, MAX_DELTA)
    /\ ~ends_fix(vec2)
    /\ \E i \in 1..(Len(vec2) - 3) : window_fixes(vec2, i)
    /\ score2' = score2 + 1
    /\ vec2' = <<>>
    /\ pc2' = "for"
    /\ UNCHANGED n_vec
    /\ SameExcept("day02")

\* the inner for loop ends without a break: the score stays
Part2Unsafe ==
    /\ pc2 = "vec"
    /\ ~is_ok(vec2, MAX_DELTA)
    /\ ~ends_fix(vec2)
    /\ \A i \in 1..(Len(vec2) - 3) : ~window_fixes(vec2, i)
    /\ vec2' = <<>>
    /\ pc2' = "for"
    /\ UNCHANGED <<n_vec, score2>>
    /\ SameExcept("day02")

\* data has no more reports: part_2 returns score
Part2Return2 ==
    /\ pc2 = "for"
    /\ pc2' = "done"
    /\ UNCHANGED <<vec2, n_vec, score2>>
    /\ SameExcept("day02")

Next2 ==
    \/ Part2ForNext2 \/ Part2SafeAsGiven \/ Part2SafeWithoutEnd
    \/ Part2SafeInWindow \/ Part2Unsafe \/ Part2Return2

InitDay02 == Init2 /\ IdleExcept("day02")

SpecDay02 == InitDay02 /\ [][Next2]_vars

\* ---- C12 ----
\* Strictly monotonic, every neighbouring difference in 1..=3
Safe(report) ==
    /\ \A k \in 1..(Len(report) - 1) : abs(report[k] - report[k + 1]) \in 1..3
    /\ \/ \A k \in 1..(Len(report) - 1) : report[k] < report[k + 1]
       \/ \A k \in 1..(Len(report) - 1) : report[k] > report[k + 1]

Deletions(report) == {remove(report, k) : k \in 0..(Len(report) - 1)}

Tolerable(report) == Safe(report) \/ \E shorter \in Deletions(report) : Safe(shorter)

\* C12: part_2 counts exactly the reports that are safe as given or after the
\* removal of one element: the iteration of a report adds one to the score when
\* is_ok holds of the report or of one of its one-element deletions, where
\* is_ok is `safe`, and leaves the score as it is otherwise.
C12_Part2Verdict ==
    [][pc2 = "vec" =>
          /\ is_ok(vec2, MAX_DELTA) <=> Safe(vec2)
          /\ score2' - score2 = (IF Tolerable(vec2) THEN 1 ELSE 0)]_vars

\* is_ok is TRUE exactly for the safe reports.
C12_IsOkMeansSafe == pc2 = "vec" => (is_ok(vec2, MAX_DELTA) <=> Safe(vec2))

\* For a report that does not have three levels part_2 has the verdict of C12.
C12_VerdictUnlessThreeLevels ==
    [][pc2 = "vec" /\ Len(vec2) # 3 =>
          score2' - score2 = (IF Tolerable(vec2) THEN 1 ELSE 0)]_vars

\* ========================================================================
\* util: Matrix::new
\* ========================================================================
MaxRowsM == 3       \* Matrix::new is given at most MaxRowsM rows
MaxColsM == 2       \* of at most MaxColsM elements each

\* Mutant: only a row shorter than row 0 fails the assertion
mismatch_Shorter(a_row, row0) == Len(a_row) < Len(row0)

\* The negation of the asserted condition, row.len() == row0.len()
mismatch(a_row, row0) == Len(a_row) # Len(row0)

RowsM == UNION {[1..n -> BOOLEAN] : n \in 0..MaxColsM}

InitM ==
    /\ pcM = "call"
    /\ dataM \in UNION {[1..n -> RowsM] : n \in 0..MaxRowsM}
    /\ outcomeM = [kind |-> Null, value |-> <<>>]

\* data.first() is Some(row0) and the assertion fails at some row: new panics
MatrixNewPanic ==
    /\ pcM = "call"
    /\ Len(dataM) > 0
    /\ \E i \in 1..Len(dataM) : mismatch(dataM[i], dataM[1])
    /\ outcomeM' = [kind |-> "panic", value |-> <<>>]
    /\ pcM' = "done"
    /\ UNCHANGED dataM
    /\ SameExcept("matrix")

\* data is empty, or the assertion holds of every row: Self(data)
MatrixNewReturn ==
    /\ pcM = "call"
    /\ \/ Len(dataM) = 0
       \/ \A i \in 1..Len(dataM) : ~mismatch(dataM[i], dataM[1])
    /\ outcomeM' = [kind |-> "value", value |-> dataM]
    /\ pcM' = "done"
    /\ UNCHANGED dataM
    /\ SameExcept("matrix")

NextM == MatrixNewPanic \/ MatrixNewReturn

InitMatrix == InitM /\ IdleExcept("matrix")

SpecMatrix == InitMatrix /\ [][NextM]_vars

\* ---- C13 ----
Ragged(some_rows) ==
    \E i \in 1..Len(some_rows) : Len(some_rows[i]) # Len(some_rows[1])

\* C13: Matrix::new panics when the length of some row is not the length of
\* row 0; otherwise it returns a matrix that holds the given rows as they are;
\* a matrix it returns never has rows of unequal length.
C13_NewChecksRows ==
    pcM = "done" =>
        /\ outcomeM.kind = "panic" <=> Ragged(dataM)
        /\ outcomeM.kind = "value" <=> ~Ragged(dataM)
        /\ outcomeM.kind = "value" =>
               /\ outcomeM.value = dataM
               /\ \A i, j \in 1..Len(outcomeM.value) :
                      Len(outcomeM.value[i]) = Len(outcomeM.value[j])

\* new has panicked on rows of which only the last, a longer one, is off
C13_Witness ==
    /\ pcM = "done"
    /\ outcomeM.kind = "panic"
    /\ Len(dataM) = 3
    /\ Len(dataM[2]) = Len(dataM[1])
    /\ Len(dataM[3]) > Len(dataM[1])

\* ---- C14 ----
\* The guard stands between four obstacles
Enclosed(m, position) ==
    \A d \in {"North", "East", "South", "West"} :
        LET ahead == peek([position |-> position, direction |-> d], shape(m))
        IN ahead # None /\ At(m, ahead) = TRUE

\* C14: in part_2 the simulation of every candidate obstacle cell ends (the
\* while loop is left, for the next cell outside or for a state seen before),
\* and so part_2 returns whenever the walk without the obstacle leaves the grid.
C14_SimulationEnds ==
    /\ (pc6 = "while") ~> (pc6 = "for")
    /\ (mode6 = "p2" /\ Leaves(matrix0, guard0.position)) ~> (pc6 = "p2_done")

\* What does hold: a simulation that starts with a guard who is not enclosed ends.
C14_EndsUnlessEnclosed ==
    (pc6 = "while" /\ ~Enclosed(matrix, position_original)) ~> (pc6 = "for")

\* The simulations that do not end are those of an enclosed guard, who rotates.
C14_StuckOnlyEnclosed ==
    [][pc6 = "while" /\ Enclosed(matrix, position_original) => pc6' = "while"]_vars

====
